---------------------------- MODULE Spec2Model ----------------------------
(***************************************************************************)
(* Model of mpc56xx_bam_can_loader.py: the MPC56xx Boot Assist Module CAN  *)
(* loader.  main() loads a RAM image and drives three phases over the CAN  *)
(* bus (password, loading address and size, code), each frame being sent   *)
(* and verified against its echo by CANLoader.send_recv_frame.             *)
(*                                                                         *)
(* Python integers are unbounded; they are represented here by their       *)
(* base-256 digits, least significant first, without leading zero digits   *)
(* (0 is the empty sequence), so that 32- and 64-bit quantities are        *)
(* computed exactly.                                                       *)
(***************************************************************************)
EXTENDS Integers, Sequences, FiniteSets, TLC

VARIABLES
    pc,               \* position of the single thread of control
    password,         \* args.password (Python int)
    ram_image_bytes,  \* the RAM image read from the file
    ram_image_len,    \* len(ram_image_bytes) (Python int)
    code_length,      \* local code_length of send_loading_address / send_code
    i,                \* loop index of send_code
    frame,            \* the can.Message being exchanged
    response_id,      \* expected echo ID of the running exchange
    caller,           \* the method that called send_recv_frame
    xstat,            \* how far the running exchange got
    resp,             \* the frame returned by bus.recv
    ret,              \* return value of the last send_recv_frame
    code_ret,         \* return value of send_code
    bus_open,         \* number of bus connections currently open
    opens,            \* number of bus connections opened so far
    recvs,            \* number of bus.recv calls so far
    sent,             \* frames transmitted on the bus, in order
    offs,             \* image offset of every data frame transmitted, in order
    rets,             \* [id, ok] of every exchange that returned, in order
    status,           \* "Running", "Complete" or "Failed"
    err,              \* the exception that ended the run, "" if none
    msgs              \* messages printed or carried by the exception

vars == <<pc, password, ram_image_bytes, ram_image_len, code_length, i, frame,
          response_id, caller, xstat, resp, ret, code_ret, bus_open, opens,
          recvs, sent, offs, rets, status, err, msgs>>

---------------------------------------------------------------------------
(* Bounds of the model                                                     *)

MaxImageLen == 20

ImageSeeds == {0, 1, 37}

---------------------------------------------------------------------------
(* Protocol constants                                                      *)

ID_SEND_PASSWORD == 17        \* 0x011

ID_SEND_PASSWORD_ECHO == 1    \* 0x001

ID_SEND_ADDRESS == 18         \* 0x012

\* the password echo ID in the place of the address echo ID
ID_SEND_ADDRESS_ECHO_Password == ID_SEND_PASSWORD_ECHO

ID_SEND_ADDRESS_ECHO == 2     \* 0x002

ID_SEND_DATA == 19            \* 0x013

ID_SEND_DATA_ECHO == 3        \* 0x003

LOADING_ADDRESS == <<64, 0, 1, 0>>   \* 0x40 0x00 0x01 0x00

ChunkSize == 8

PasswordBytes == 8

SizeBytes == 4

---------------------------------------------------------------------------
(* Python integers as base-256 digit sequences, least significant first    *)

Max(a, b) == IF a >= b THEN a ELSE b

Min(a, b) == IF a <= b THEN a ELSE b

RECURSIVE Norm(_)
Norm(d) ==
    IF d = <<>> THEN <<>>
    ELSE IF d[Len(d)] = 0 THEN Norm(SubSeq(d, 1, Len(d) - 1))
    ELSE d

RECURSIVE FromNat(_)
FromNat(n) == IF n = 0 THEN <<>> ELSE <<n % 256>> \o FromNat(n \div 256)

Digit(a, k) == IF k <= Len(a) THEN a[k] ELSE 0

RECURSIVE BitOr(_, _, _)
BitOr(x, y, n) ==
    IF n = 0 THEN 0
    ELSE (IF x % 2 = 1 \/ y % 2 = 1 THEN 1 ELSE 0)
         + 2 * BitOr(x \div 2, y \div 2, n - 1)

RECURSIVE BitAnd(_, _, _)
BitAnd(x, y, n) ==
    IF n = 0 THEN 0
    ELSE (IF x % 2 = 1 /\ y % 2 = 1 THEN 1 ELSE 0)
         + 2 * BitAnd(x \div 2, y \div 2, n - 1)

PyOr(a, b) ==
    Norm([k \in 1..Max(Len(a), Len(b)) |-> BitOr(Digit(a, k), Digit(b, k), 8)])

PyAnd(a, b) ==
    Norm([k \in 1..Max(Len(a), Len(b)) |-> BitAnd(Digit(a, k), Digit(b, k), 8)])

RECURSIVE PyLtFrom(_, _, _)
PyLtFrom(a, b, k) ==
    IF k = 0 THEN FALSE
    ELSE IF a[k] # b[k] THEN a[k] < b[k]
    ELSE PyLtFrom(a, b, k - 1)

PyLt(a, b) ==
    IF Len(a) # Len(b) THEN Len(a) < Len(b) ELSE PyLtFrom(a, b, Len(a))

\* int.to_bytes(n, "big") raises OverflowError when the value needs more
\* than n bytes
FitsBytes(a, n) == Len(a) <= n

ToBytesBig(a, n) == [k \in 1..n |-> Digit(a, n + 1 - k)]

FromBytesBig(b) == Norm([k \in 1..Len(b) |-> b[Len(b) + 1 - k]])

\* len(hex(a)) - 2: the number of hexadecimal digits of a, without leading
\* zeros ("0x0" for 0)
HexDigits(a) ==
    IF a = <<>> THEN 1
    ELSE 2 * (Len(a) - 1) + (IF a[Len(a)] < 16 THEN 1 ELSE 2)

VLE_BIT == <<0, 0, 0, 128>>            \* 0x80000000

DEFAULT_PASSWORD == FromBytesBig(<<254, 237, 250, 206, 202, 254, 190, 239>>)

---------------------------------------------------------------------------
(* Inputs                                                                  *)

\* 64-bit unsigned passwords: the default, values with a leading zero
\* nibble, a leading zero byte, seven leading zero bytes, 0, 2^60 and 2^64-1
Passwords ==
    { DEFAULT_PASSWORD,
      FromBytesBig(<<14, 237, 250, 206, 202, 254, 190, 239>>),
      FromBytesBig(<<0, 237, 250, 206, 202, 254, 190, 239>>),
      FromBytesBig(<<0, 0, 0, 0, 0, 0, 0, 1>>),
      FromBytesBig(<<0, 0, 0, 0, 0, 0, 0, 0>>),
      FromBytesBig(<<16, 0, 0, 0, 0, 0, 0, 0>>),
      FromBytesBig(<<255, 255, 255, 255, 255, 255, 255, 255>>) }

Image(L, s) == [k \in 1..L |-> (s * k) % 256]

Images == { Image(L, s) : L \in 0..MaxImageLen, s \in ImageSeeds }

\* code lengths handed to send_loading_address: 0, 10, 2^31 - 1, 2^31,
\* 2^31 + 10, 2^32 - 1, 2^32 and the image lengths of the model
AddrLengths ==
    { FromNat(n) : n \in 0..MaxImageLen }
    \cup { <<255, 255, 255, 127>>, <<0, 0, 0, 128>>, <<10, 0, 0, 128>>,
           <<255, 255, 255, 255>>, <<0, 0, 0, 0, 1>>, <<0, 1>>, <<0, 0, 1>>,
           <<0, 0, 0, 1>> }

---------------------------------------------------------------------------
(* Frames                                                                  *)

Message(id, data) ==
    [arbitration_id |-> id, data |-> data, is_extended_id |-> FALSE]

NoFrame == Message(0, <<>>)

EchoIds == {ID_SEND_PASSWORD_ECHO, ID_SEND_ADDRESS_ECHO, ID_SEND_DATA_ECHO}

\* payloads a frame on the bus may carry instead of the echo of d
Garbled(d) ==
    { <<>> }
    \cup (IF d = <<>> THEN { <<0>> }
          ELSE { SubSeq(d, 1, Len(d) - 1),
                 [d EXCEPT ![1] = (d[1] + 1) % 256],
                 [d EXCEPT ![Len(d)] = BitAnd(d[Len(d)], 127, 8)],
                 [d EXCEPT ![Max(1, Len(d) - 3)] = BitAnd(d[Max(1, Len(d) - 3)], 127, 8)] })
    \cup (IF Len(d) < ChunkSize THEN { d \o <<0>> } ELSE {})

\* the frames bus.recv may return while f is being exchanged
Responses(f) ==
    { Message(id, d) : id \in EchoIds \cup {f.arbitration_id},
                       d \in {f.data} \cup (Garbled(f.data) \ {f.data}) }

\* code_bytes[i : i + 8]
Slice(code_bytes, from, to) ==
    SubSeq(code_bytes, from + 1, Min(to, Len(code_bytes)))

Fail(exc, msg) ==
    /\ pc' = "done"
    /\ status' = "Failed"
    /\ err' = exc
    /\ msgs' = Append(msgs, msg)

---------------------------------------------------------------------------
(* main: after the arguments are parsed and the image is read              *)

Init ==
    /\ pc = "main_check"
    /\ password \in Passwords
    /\ ram_image_bytes \in Images
    /\ ram_image_len = FromNat(Len(ram_image_bytes))
    /\ code_length = <<>>
    /\ i = 0
    /\ frame = NoFrame
    /\ response_id = 0
    /\ caller = ""
    /\ xstat = "idle"
    /\ resp = NoFrame
    /\ ret = FALSE
    /\ code_ret = FALSE
    /\ bus_open = 0
    /\ opens = 0
    /\ recvs = 0
    /\ sent = <<>>
    /\ offs = <<>>
    /\ rets = <<>>
    /\ status = "Running"
    /\ err = ""
    /\ msgs = <<>>

\* main without the check of the image length
MainCheckImage_Unchecked ==
    /\ pc = "main_check"
    /\ pc' = "call_password"
    /\ UNCHANGED <<password, ram_image_bytes, ram_image_len, code_length, i,
                   frame, response_id, caller, xstat, resp, ret, code_ret,
                   bus_open, opens, recvs, sent, offs, rets, status, err,
                   msgs>>

\* if 0 == ram_image_len: raise ValueError
MainCheckImage ==
    /\ pc = "main_check"
    /\ IF ram_image_len = <<>>
       THEN Fail("ValueError", "RAM Image lenght is zero!")
       ELSE /\ pc' = "call_password"
            /\ UNCHANGED <<status, err, msgs>>
    /\ UNCHANGED <<password, ram_image_bytes, ram_image_len, code_length, i,
                   frame, response_id, caller, xstat, resp, ret, code_ret,
                   bus_open, opens, recvs, sent, offs, rets>>

---------------------------------------------------------------------------
(* CANLoader.send_password                                                 *)

\* assert len(hex(password)) - 2 == 16
PasswordAccepted(p) == HexDigits(p) = 2 * PasswordBytes

encode_password(p) == Message(ID_SEND_PASSWORD, ToBytesBig(p, PasswordBytes))

SendPassword ==
    /\ pc = "call_password"
    /\ IF ~PasswordAccepted(password)
       THEN /\ Fail("AssertionError", "Password lenght is 8 bytes (16 hex digits)")
            /\ UNCHANGED <<frame, response_id, caller>>
       ELSE /\ frame' = encode_password(password)
            /\ response_id' = ID_SEND_PASSWORD_ECHO
            /\ caller' = "send_password"
            /\ pc' = "bus_open"
            /\ UNCHANGED <<status, err, msgs>>
    /\ UNCHANGED <<password, ram_image_bytes, ram_image_len, code_length, i,
                   xstat, resp, ret, code_ret, bus_open, opens, recvs, sent,
                   offs, rets>>

---------------------------------------------------------------------------
(* CANLoader.send_loading_address                                          *)

\* the code length without the VLE bit
WithVle_Unset(n) == n

\* code_length |= 0x80000000
WithVle(n) == PyOr(n, VLE_BIT)

encode_address(n) ==
    Message(ID_SEND_ADDRESS, LOADING_ADDRESS \o ToBytesBig(n, SizeBytes))

SendLoadingAddress ==
    /\ pc = "call_address"
    /\ code_length' = WithVle(ram_image_len)
    /\ IF ~FitsBytes(code_length', SizeBytes)
       THEN /\ Fail("OverflowError", "int too big to convert")
            /\ UNCHANGED <<frame, response_id, caller>>
       ELSE /\ frame' = encode_address(code_length')
            /\ response_id' = ID_SEND_ADDRESS_ECHO
            /\ caller' = "send_loading_address"
            /\ pc' = "bus_open"
            /\ UNCHANGED <<status, err, msgs>>
    /\ UNCHANGED <<password, ram_image_bytes, ram_image_len, i, xstat, resp,
                   ret, code_ret, bus_open, opens, recvs, sent, offs, rets>>

---------------------------------------------------------------------------
(* CANLoader.send_code                                                     *)

SendCode ==
    /\ pc = "call_code"
    /\ code_length' = ram_image_len
    /\ i' = 0
    /\ pc' = "code_loop"
    /\ UNCHANGED <<password, ram_image_bytes, ram_image_len, frame,
                   response_id, caller, xstat, resp, ret, code_ret, bus_open,
                   opens, recvs, sent, offs, rets, status, err, msgs>>

\* a chunk one byte short: code_bytes[i : i + 7]
encode_data_chunk_Short(code_bytes, at) ==
    Message(ID_SEND_DATA, Slice(code_bytes, at, at + ChunkSize - 1))

encode_data_chunk(code_bytes, at) ==
    Message(ID_SEND_DATA, Slice(code_bytes, at, at + ChunkSize))

\* for i in range(0, code_length, 8): build the data frame of the chunk at
\* i, or leave the loop and return True
SendCodeNext ==
    /\ pc = "code_loop"
    /\ IF PyLt(FromNat(i), code_length)
       THEN /\ frame' = encode_data_chunk(ram_image_bytes, i)
            /\ response_id' = ID_SEND_DATA_ECHO
            /\ caller' = "send_code"
            /\ pc' = "bus_open"
            /\ UNCHANGED code_ret
       ELSE /\ code_ret' = TRUE
            /\ pc' = "ret_code"
            /\ UNCHANGED <<frame, response_id, caller>>
    /\ UNCHANGED <<password, ram_image_bytes, ram_image_len, code_length, i,
                   xstat, resp, ret, bus_open, opens, recvs, sent, offs, rets,
                   status, err, msgs>>

\* send_code sending the same chunk again after its echo
SendCodeCheck_NoAdvance ==
    /\ pc = "ret_chunk"
    /\ IF ret = FALSE
       THEN /\ code_ret' = FALSE
            /\ pc' = "ret_code"
       ELSE /\ pc' = "code_loop"
            /\ UNCHANGED code_ret
    /\ UNCHANGED <<password, ram_image_bytes, ram_image_len, code_length, i,
                   frame, response_id, caller, xstat, resp, ret, bus_open,
                   opens, recvs, sent, offs, rets, status, err, msgs>>

\* send_code going on with the next chunk whatever the exchange returned
SendCodeCheck_Continue ==
    /\ pc = "ret_chunk"
    /\ i' = i + ChunkSize
    /\ pc' = "code_loop"
    /\ UNCHANGED <<password, ram_image_bytes, ram_image_len, code_length,
                   frame, response_id, caller, xstat, resp, ret, code_ret,
                   bus_open, opens, recvs, sent, offs, rets, status, err,
                   msgs>>

\* if False == self.send_recv_frame(msg, ID_SEND_DATA_ECHO): return False
SendCodeCheck ==
    /\ pc = "ret_chunk"
    /\ IF ret = FALSE
       THEN /\ code_ret' = FALSE
            /\ pc' = "ret_code"
            /\ UNCHANGED i
       ELSE /\ i' = i + ChunkSize
            /\ pc' = "code_loop"
            /\ UNCHANGED code_ret
    /\ UNCHANGED <<password, ram_image_bytes, ram_image_len, code_length,
                   frame, response_id, caller, xstat, resp, ret, bus_open,
                   opens, recvs, sent, offs, rets, status, err, msgs>>

---------------------------------------------------------------------------
(* CANLoader.send_recv_frame                                               *)

\* the comparison of the response without its payload
EchoMatches_IdOnly(r, id, f) == r.arbitration_id = id

\* resp.arbitration_id == response_id and resp.data == frame.data
EchoMatches(r, id, f) == r.arbitration_id = id /\ r.data = f.data

\* the statement after the call of send_recv_frame in the calling method
ReturnSite(c) ==
    CASE c = "send_password" -> "ret_password"
      [] c = "send_loading_address" -> "ret_address"
      [] c = "send_code" -> "ret_chunk"

\* with can.interface.Bus(...) as bus: the connection is opened
BusOpen ==
    /\ pc = "bus_open"
    /\ bus_open' = bus_open + 1
    /\ opens' = opens + 1
    /\ xstat' = "open"
    /\ resp' = NoFrame
    /\ pc' = "bus_send"
    /\ UNCHANGED <<password, ram_image_bytes, ram_image_len, code_length, i,
                   frame, response_id, caller, ret, code_ret, recvs, sent,
                   offs, rets, status, err, msgs>>

\* can.interface.Bus(...) raises: nothing catches it, the run ends
BusOpenError ==
    /\ pc = "bus_open"
    /\ Fail("CanInitializationError", "Bus could not be opened")
    /\ xstat' = "open_error"
    /\ UNCHANGED <<password, ram_image_bytes, ram_image_len, code_length, i,
                   frame, response_id, caller, resp, ret, code_ret, bus_open,
                   opens, recvs, sent, offs, rets>>

\* bus.send(frame) succeeds
XchgSend ==
    /\ pc = "bus_send"
    /\ sent' = Append(sent, frame)
    /\ offs' = IF caller = "send_code" THEN Append(offs, i) ELSE offs
    /\ xstat' = "sent"
    /\ pc' = "bus_recv"
    /\ UNCHANGED <<password, ram_image_bytes, ram_image_len, code_length, i,
                   frame, response_id, caller, resp, ret, code_ret, bus_open,
                   opens, recvs, rets, status, err, msgs>>

\* a failed send followed by the receive all the same
XchgSendError_ThenRecv ==
    /\ pc = "bus_send"
    /\ msgs' = Append(msgs, "Failed to send password!")
    /\ ret' = FALSE
    /\ xstat' = "send_error"
    /\ pc' = "bus_recv"
    /\ UNCHANGED <<password, ram_image_bytes, ram_image_len, code_length, i,
                   frame, response_id, caller, resp, code_ret, bus_open,
                   opens, recvs, sent, offs, rets, status, err>>

\* a failed send returning False with the bus left open
XchgSendError_NoRelease ==
    /\ pc = "bus_send"
    /\ msgs' = Append(msgs, "Failed to send password!")
    /\ ret' = FALSE
    /\ xstat' = "send_error"
    /\ rets' = Append(rets, [id |-> frame.arbitration_id, ok |-> FALSE])
    /\ pc' = ReturnSite(caller)
    /\ UNCHANGED <<password, ram_image_bytes, ram_image_len, code_length, i,
                   frame, response_id, caller, resp, code_ret, bus_open,
                   opens, recvs, sent, offs, status, err>>

\* bus.send(frame) raises can.CanError: return False
XchgSendError ==
    /\ pc = "bus_send"
    /\ msgs' = Append(msgs, "Failed to send password!")
    /\ ret' = FALSE
    /\ xstat' = "send_error"
    /\ pc' = "bus_exit"
    /\ UNCHANGED <<password, ram_image_bytes, ram_image_len, code_length, i,
                   frame, response_id, caller, resp, code_ret, bus_open,
                   opens, recvs, sent, offs, rets, status, err>>

\* reading frames until the echo arrives
XchgRecvFrame_UntilEcho ==
    /\ pc = "bus_recv"
    /\ \E r \in Responses(frame) :
         /\ resp' = r
         /\ ret' = EchoMatches(r, response_id, frame)
         /\ pc' = IF EchoMatches(r, response_id, frame)
                  THEN "bus_exit" ELSE "bus_recv"
    /\ recvs' = recvs + 1
    /\ xstat' = "recv_frame"
    /\ UNCHANGED <<password, ram_image_bytes, ram_image_len, code_length, i,
                   frame, response_id, caller, code_ret, bus_open, opens,
                   sent, offs, rets, status, err, msgs>>

\* resp = bus.recv(1) returns a frame: return the comparison
XchgRecvFrame ==
    /\ pc = "bus_recv"
    /\ \E r \in Responses(frame) :
         /\ resp' = r
         /\ ret' = EchoMatches(r, response_id, frame)
    /\ recvs' = recvs + 1
    /\ xstat' = "recv_frame"
    /\ pc' = "bus_exit"
    /\ UNCHANGED <<password, ram_image_bytes, ram_image_len, code_length, i,
                   frame, response_id, caller, code_ret, bus_open, opens,
                   sent, offs, rets, status, err, msgs>>

\* a timeout surfacing as an exception of its own
XchgRecvNone_Raises ==
    /\ pc = "bus_recv"
    /\ Fail("TimeoutError", "No response")
    /\ recvs' = recvs + 1
    /\ xstat' = "recv_none"
    /\ bus_open' = bus_open - 1
    /\ UNCHANGED <<password, ram_image_bytes, ram_image_len, code_length, i,
                   frame, response_id, caller, resp, ret, code_ret, opens,
                   sent, offs, rets>>

\* resp = bus.recv(1) returns None after the timeout: fall through to the
\* final return False
XchgRecvNone ==
    /\ pc = "bus_recv"
    /\ ret' = FALSE
    /\ recvs' = recvs + 1
    /\ xstat' = "recv_none"
    /\ pc' = "bus_exit"
    /\ UNCHANGED <<password, ram_image_bytes, ram_image_len, code_length, i,
                   frame, response_id, caller, resp, code_ret, bus_open,
                   opens, sent, offs, rets, status, err, msgs>>

\* bus.recv(1) raises can.CanError: return False
XchgRecvError ==
    /\ pc = "bus_recv"
    /\ msgs' = Append(msgs, "Failed to receive response!")
    /\ ret' = FALSE
    /\ recvs' = recvs + 1
    /\ xstat' = "recv_error"
    /\ pc' = "bus_exit"
    /\ UNCHANGED <<password, ram_image_bytes, ram_image_len, code_length, i,
                   frame, response_id, caller, resp, code_ret, bus_open,
                   opens, sent, offs, rets, status, err>>

\* leaving the with block shuts the bus down; send_recv_frame returns ret
BusClose ==
    /\ pc = "bus_exit"
    /\ bus_open' = bus_open - 1
    /\ rets' = Append(rets, [id |-> frame.arbitration_id, ok |-> ret])
    /\ pc' = ReturnSite(caller)
    /\ UNCHANGED <<password, ram_image_bytes, ram_image_len, code_length, i,
                   frame, response_id, caller, xstat, resp, ret, code_ret,
                   opens, recvs, sent, offs, status, err, msgs>>

---------------------------------------------------------------------------
(* main: the three phases                                                  *)

\* main going on to the address phase whatever send_password returned
MainAssertPassword_Unchecked ==
    /\ pc = "ret_password"
    /\ pc' = "call_address"
    /\ UNCHANGED <<password, ram_image_bytes, ram_image_len, code_length, i,
                   frame, response_id, caller, xstat, resp, ret, code_ret,
                   bus_open, opens, recvs, sent, offs, rets, status, err,
                   msgs>>

\* assert True == loader.send_password(args.password)
MainAssertPassword ==
    /\ pc = "ret_password"
    /\ IF ret = TRUE
       THEN /\ pc' = "call_address"
            /\ UNCHANGED <<status, err, msgs>>
       ELSE Fail("AssertionError", "Failed sending password!")
    /\ UNCHANGED <<password, ram_image_bytes, ram_image_len, code_length, i,
                   frame, response_id, caller, xstat, resp, ret, code_ret,
                   bus_open, opens, recvs, sent, offs, rets>>

\* main sending the address frame again when its exchange returned False
MainAssertAddress_Retry ==
    /\ pc = "ret_address"
    /\ pc' = IF ret = TRUE THEN "call_code" ELSE "call_address"
    /\ UNCHANGED <<password, ram_image_bytes, ram_image_len, code_length, i,
                   frame, response_id, caller, xstat, resp, ret, code_ret,
                   bus_open, opens, recvs, sent, offs, rets, status, err,
                   msgs>>

\* assert True == loader.send_loading_address(ram_image_len)
MainAssertAddress ==
    /\ pc = "ret_address"
    /\ IF ret = TRUE
       THEN /\ pc' = "call_code"
            /\ UNCHANGED <<status, err, msgs>>
       ELSE Fail("AssertionError", "Failed sending loading address!")
    /\ UNCHANGED <<password, ram_image_bytes, ram_image_len, code_length, i,
                   frame, response_id, caller, xstat, resp, ret, code_ret,
                   bus_open, opens, recvs, sent, offs, rets>>

\* main ending the run as complete whatever send_code returned
MainAssertCode_Unchecked ==
    /\ pc = "ret_code"
    /\ pc' = "done"
    /\ status' = "Complete"
    /\ UNCHANGED <<password, ram_image_bytes, ram_image_len, code_length, i,
                   frame, response_id, caller, xstat, resp, ret, code_ret,
                   bus_open, opens, recvs, sent, offs, rets, err, msgs>>

\* assert True == loader.send_code(ram_image_len, ram_image_bytes)
MainAssertCode ==
    /\ pc = "ret_code"
    /\ IF code_ret = TRUE
       THEN /\ pc' = "done"
            /\ status' = "Complete"
            /\ UNCHANGED <<err, msgs>>
       ELSE Fail("AssertionError", "Failed sending image!")
    /\ UNCHANGED <<password, ram_image_bytes, ram_image_len, code_length, i,
                   frame, response_id, caller, xstat, resp, ret, code_ret,
                   bus_open, opens, recvs, sent, offs, rets>>

Next ==
    \/ MainCheckImage
    \/ SendPassword
    \/ MainAssertPassword
    \/ SendLoadingAddress
    \/ MainAssertAddress
    \/ SendCode
    \/ SendCodeNext
    \/ SendCodeCheck
    \/ MainAssertCode
    \/ BusOpen
    \/ BusOpenError
    \/ XchgSend
    \/ XchgSendError
    \/ XchgRecvFrame
    \/ XchgRecvNone
    \/ XchgRecvError
    \/ BusClose

Spec == Init /\ [][Next]_vars

\* main run to its end: the single thread always takes its next step, and
\* bus.recv(1) returns after at most the timeout
SpecFair == Init /\ [][Next]_vars /\ WF_vars(Next)

---------------------------------------------------------------------------
(* send_loading_address called on its own with any code length             *)

InitAddr ==
    /\ pc = "call_address"
    /\ password = DEFAULT_PASSWORD
    /\ ram_image_bytes = <<>>
    /\ ram_image_len \in AddrLengths
    /\ code_length = <<>>
    /\ i = 0
    /\ frame = NoFrame
    /\ response_id = 0
    /\ caller = ""
    /\ xstat = "idle"
    /\ resp = NoFrame
    /\ ret = FALSE
    /\ code_ret = FALSE
    /\ bus_open = 0
    /\ opens = 0
    /\ recvs = 0
    /\ sent = <<>>
    /\ offs = <<>>
    /\ rets = <<>>
    /\ status = "Running"
    /\ err = ""
    /\ msgs = <<>>

NextAddr ==
    \/ SendLoadingAddress
    \/ BusOpen
    \/ BusOpenError
    \/ XchgSend
    \/ XchgSendError
    \/ XchgRecvFrame
    \/ XchgRecvNone
    \/ XchgRecvError
    \/ BusClose

SpecAddr == InitAddr /\ [][NextAddr]_vars

---------------------------------------------------------------------------
(* main against a target that echoes every frame, on a transport that      *)
(* never fails                                                             *)

\* resp = bus.recv(1) returns the echo of the frame: the expected echo ID
\* with the payload sent
XchgRecvEcho ==
    /\ pc = "bus_recv"
    /\ resp' = Message(response_id, frame.data)
    /\ ret' = EchoMatches(resp', response_id, frame)
    /\ recvs' = recvs + 1
    /\ xstat' = "recv_frame"
    /\ pc' = "bus_exit"
    /\ UNCHANGED <<password, ram_image_bytes, ram_image_len, code_length, i,
                   frame, response_id, caller, code_ret, bus_open, opens,
                   sent, offs, rets, status, err, msgs>>

NextEcho ==
    \/ MainCheckImage
    \/ SendPassword
    \/ MainAssertPassword
    \/ SendLoadingAddress
    \/ MainAssertAddress
    \/ SendCode
    \/ SendCodeNext
    \/ SendCodeCheck
    \/ MainAssertCode
    \/ BusOpen
    \/ XchgSend
    \/ XchgRecvEcho
    \/ BusClose

\* the interpreter runs the single thread to its end
SpecEcho == Init /\ [][NextEcho]_vars /\ WF_vars(NextEcho)

---------------------------------------------------------------------------
(* send_code called on its own: code_length and code_bytes are separate    *)
(* arguments                                                               *)

CodeLengths == { FromNat(n) : n \in 0..MaxImageLen }

InitCode ==
    /\ pc = "call_code"
    /\ password = DEFAULT_PASSWORD
    /\ ram_image_bytes \in Images
    /\ ram_image_len \in CodeLengths
    /\ code_length = <<>>
    /\ i = 0
    /\ frame = NoFrame
    /\ response_id = 0
    /\ caller = ""
    /\ xstat = "idle"
    /\ resp = NoFrame
    /\ ret = FALSE
    /\ code_ret = FALSE
    /\ bus_open = 0
    /\ opens = 0
    /\ recvs = 0
    /\ sent = <<>>
    /\ offs = <<>>
    /\ rets = <<>>
    /\ status = "Running"
    /\ err = ""
    /\ msgs = <<>>

NextCode ==
    \/ SendCode
    \/ SendCodeNext
    \/ SendCodeCheck
    \/ BusOpen
    \/ BusOpenError
    \/ XchgSend
    \/ XchgSendError
    \/ XchgRecvFrame
    \/ XchgRecvNone
    \/ XchgRecvError
    \/ BusClose

SpecCode == InitCode /\ [][NextCode]_vars

---------------------------------------------------------------------------
(* Properties                                                              *)

IsData(f) == f.arbitration_id = ID_SEND_DATA

DataFrames == SelectSeq(sent, IsData)

RECURSIVE ConcatPayloads(_)
ConcatPayloads(fs) ==
    IF fs = <<>> THEN <<>> ELSE Head(fs).data \o ConcatPayloads(Tail(fs))

CountId(id) == Cardinality({k \in 1..Len(sent) : sent[k].arbitration_id = id})

\* the value of a Python int is below 2^31
In31Bits(n) == Len(n) < SizeBytes \/ (Len(n) = SizeBytes /\ n[SizeBytes] < 128)

MASK31 == <<255, 255, 255, 127>>        \* 0x7FFFFFFF

PasswordOk == [id |-> ID_SEND_PASSWORD, ok |-> TRUE]

AddressOk == [id |-> ID_SEND_ADDRESS, ok |-> TRUE]

\* C1: the frames on the bus are the password frame, then the address
\* frame, then data frames only; the address frame is on the bus only if
\* the password exchange returned True, a data frame only if the address
\* exchange returned True; a completed run has sent all three phases.
C1_PhaseOrder ==
    /\ \A k \in 1..Len(sent) :
         /\ (k = 1) <=> (sent[k].arbitration_id = ID_SEND_PASSWORD)
         /\ (k = 2) <=> (sent[k].arbitration_id = ID_SEND_ADDRESS)
         /\ (k >= 3) <=> (sent[k].arbitration_id = ID_SEND_DATA)
         /\ (k >= 2) => (Len(rets) >= 1 /\ rets[1] = PasswordOk)
         /\ (k >= 3) => (Len(rets) >= 2 /\ rets[2] = AddressOk)
    /\ (status = "Complete") => Len(sent) >= 3

C1_Witness ==
    /\ status = "Complete"
    /\ Len(sent) = 5
    /\ sent[1].arbitration_id = ID_SEND_PASSWORD
    /\ sent[2].arbitration_id = ID_SEND_ADDRESS
    /\ sent[5].arbitration_id = ID_SEND_DATA

\* C2: a data exchange that returned False is the last exchange of the
\* run: no frame is sent after it, send_code returns False and the run
\* fails; the data frames on the bus are at strictly increasing offsets.
C2_AbortOnFirstFailedChunk ==
    /\ \A k \in 1..Len(rets) :
         (rets[k].id = ID_SEND_DATA /\ ~rets[k].ok) =>
             /\ k = Len(rets)
             /\ Len(sent) <= k
             /\ pc \in {"ret_chunk", "ret_code", "done"}
             /\ (pc \in {"ret_code", "done"}) => (code_ret = FALSE)
             /\ (pc = "done") => (status = "Failed")
    /\ \A a, b \in 1..Len(offs) : (a < b) => (offs[a] < offs[b])

C2_Witness ==
    /\ Len(ram_image_bytes) = 20
    /\ pc = "done"
    /\ status = "Failed"
    /\ Len(rets) = 4
    /\ rets[4] = [id |-> ID_SEND_DATA, ok |-> FALSE]
    /\ xstat = "recv_frame"
    /\ offs = <<0, 8>>
    /\ Len(DataFrames) = 2

\* C3: send_recv_frame returns True exactly when a frame was received
\* whose ID is the expected echo ID and whose payload has the length and
\* the bytes of the payload sent.
C3_ExchangeResult ==
    (pc \in {"bus_exit", "ret_password", "ret_address", "ret_chunk"}) =>
        ((ret = TRUE) <=>
            /\ xstat = "recv_frame"
            /\ resp.arbitration_id = response_id
            /\ Len(resp.data) = Len(frame.data)
            /\ \A k \in 1..Len(frame.data) : resp.data[k] = frame.data[k])

C3_Witness ==
    /\ pc = "bus_exit"
    /\ Len(rets) = 1
    /\ rets[1].ok
    /\ xstat = "recv_frame"
    /\ ret = FALSE
    /\ resp.arbitration_id = response_id
    /\ Len(resp.data) = Len(frame.data)
    /\ resp.data # frame.data

\* C4: at most one bus connection is open, one is open exactly while an
\* exchange is between opening the bus and leaving the with block, every
\* exchange that returned opened one connection and released it, and
\* none is open when the run has ended.
C4_BusScoped ==
    /\ bus_open \in {0, 1}
    /\ (bus_open = 1) <=> (pc \in {"bus_send", "bus_recv", "bus_exit"})
    /\ opens = Len(rets) + bus_open
    /\ (pc = "done") => (bus_open = 0)

C4_Witness ==
    /\ pc = "done"
    /\ xstat = "send_error"
    /\ opens = 4
    /\ Len(rets) = 4
    /\ bus_open = 0

\* C5: for an image of length 0 no connection is opened and no frame is
\* built or sent; the run ends with the ValueError.
C5_EmptyImageRejected ==
    (Len(ram_image_bytes) = 0) =>
        /\ opens = 0
        /\ sent = <<>>
        /\ frame = NoFrame
        /\ pc \in {"main_check", "done"}
        /\ (pc = "done") => (status = "Failed" /\ err = "ValueError")

C5_Witness ==
    /\ Len(ram_image_bytes) = 0
    /\ pc = "done"
    /\ err = "ValueError"
    /\ opens = 0

\* C6: when send_code returns True for an image of length L > 0, the data
\* frames sent are ceil(L/8) frames at offsets 0, 8, 16, ..., each of 8
\* bytes except the last, which has L mod 8 bytes if that is not 0 and 8
\* otherwise, and their payloads concatenated are the image.
C6_Chunking ==
    (pc \in {"ret_code", "done"} /\ code_ret = TRUE) =>
        LET L == Len(ram_image_bytes)
            D == DataFrames
        IN  /\ L > 0
            /\ Len(D) = (L + 7) \div 8
            /\ offs = [k \in 1..Len(D) |-> 8 * (k - 1)]
            /\ \A k \in 1..(Len(D) - 1) : Len(D[k].data) = 8
            /\ Len(D[Len(D)].data) = (IF L % 8 # 0 THEN L % 8 ELSE 8)
            /\ ConcatPayloads(D) = ram_image_bytes

C6_Witness ==
    /\ status = "Complete"
    /\ Len(ram_image_bytes) = 20
    /\ Len(DataFrames) = 3
    /\ Len(DataFrames[3].data) = 4
    /\ ram_image_bytes[20] = 228

\* C7: once send_password has been called, whatever the 64-bit password, a
\* password frame has been built whose 8-byte payload decodes big-endian
\* to the password; no password is rejected.
C7_AnyPasswordEncoded ==
    (Len(ram_image_bytes) > 0 /\ pc \notin {"main_check", "call_password"}) =>
        /\ frame # NoFrame
        /\ (caller = "send_password") =>
              /\ frame.arbitration_id = ID_SEND_PASSWORD
              /\ Len(frame.data) = 8
              /\ FromBytesBig(frame.data) = password

\* C8: for a code length below 2^31, send_loading_address builds the frame
\* 0x40 0x00 0x01 0x00 followed by four bytes with the top bit set which,
\* masked with 0x7FFFFFFF, are the code length; that frame is the one sent.
C8_AddressEncoding ==
    (In31Bits(ram_image_len) /\ pc # "call_address") =>
        LET size == SubSeq(frame.data, 5, 8)
        IN  /\ err # "OverflowError"
            /\ frame.arbitration_id = ID_SEND_ADDRESS
            /\ Len(frame.data) = 8
            /\ SubSeq(frame.data, 1, 4) = <<64, 0, 1, 0>>
            /\ size[1] >= 128
            /\ PyAnd(FromBytesBig(size), MASK31) = ram_image_len
            /\ FromBytesBig(size) = PyOr(ram_image_len, <<0, 0, 0, 128>>)
            /\ (xstat \in {"sent", "recv_frame", "recv_none", "recv_error"})
                  => (sent = <<frame>>)

C8_Witness ==
    /\ ram_image_len = <<10>>
    /\ sent = <<Message(ID_SEND_ADDRESS, <<64, 0, 1, 0, 128, 0, 0, 10>>)>>
    /\ ret = TRUE

\* C9: for a code length that does not fit in 31 bits send_loading_address
\* fails and neither builds nor sends an address frame.
C9_LongLengthRejected ==
    (~In31Bits(ram_image_len) /\ pc # "call_address") =>
        /\ status = "Failed"
        /\ frame = NoFrame
        /\ sent = <<>>

ExchangeFailed ==
    \/ \E k \in 1..Len(rets) : ~rets[k].ok
    \/ pc = "bus_exit" /\ ~ret
    \/ xstat = "open_error"

\* C10: the password frame and the address frame are each on the bus at
\* most once and no two data frames are for the same offset; once an
\* exchange has failed no frame is transmitted and no exchange is begun;
\* a run that ended after a failed exchange is Failed, and nothing
\* follows Failed.
C10_NoRetry ==
    /\ [](/\ CountId(ID_SEND_PASSWORD) <= 1
          /\ CountId(ID_SEND_ADDRESS) <= 1
          /\ \A a, b \in 1..Len(offs) : (a # b) => (offs[a] # offs[b])
          /\ (ExchangeFailed /\ pc = "done") => (status = "Failed"))
    /\ [][ExchangeFailed => (sent' = sent /\ opens' = opens /\ frame' = frame)]_vars
    /\ [][status # "Failed"]_vars

C10_Witness ==
    /\ status = "Failed"
    /\ xstat = "recv_none"
    /\ Len(sent) = 4
    /\ Len(rets) = 4
    /\ opens = 4

\* the echo ID that the frame ID table gives for a send ID
EchoOf(id) ==
    CASE id = 17 -> 1
      [] id = 18 -> 2
      [] id = 19 -> 3
      [] OTHER -> 0

InExchange ==
    pc \in {"bus_open", "bus_send", "bus_recv", "bus_exit", "ret_password",
            "ret_address", "ret_chunk"}

Returned == pc \in {"bus_exit", "ret_password", "ret_address", "ret_chunk"}

\* C11: every frame on the bus has a standard identifier 0x011, 0x012 or
\* 0x013; the frame of an exchange has the send ID of the phase of the
\* calling method and is verified against the echo ID of that phase, and an
\* exchange returns True only on a response with that echo ID.
C11_IdTable ==
    /\ \A k \in 1..Len(sent) :
         /\ sent[k].is_extended_id = FALSE
         /\ sent[k].arbitration_id \in {17, 18, 19}
    /\ InExchange =>
         /\ frame.is_extended_id = FALSE
         /\ (caller = "send_password") <=> (frame.arbitration_id = 17)
         /\ (caller = "send_loading_address") <=> (frame.arbitration_id = 18)
         /\ (caller = "send_code") <=> (frame.arbitration_id = 19)
         /\ response_id = EchoOf(frame.arbitration_id)
    /\ (Returned /\ ret) => (resp.arbitration_id = EchoOf(frame.arbitration_id))

C11_Witness ==
    /\ pc = "bus_exit"
    /\ xstat = "recv_frame"
    /\ frame.arbitration_id = 19
    /\ resp.arbitration_id = 2
    /\ resp.data = frame.data
    /\ ret = FALSE

AllOk == \A k \in 1..Len(rets) : rets[k].ok

\* C12: against an echoing target and a transport that never fails, a run
\* with any 64-bit password and an image of length L > 0 ends Complete
\* after exactly 2 + ceil(L/8) exchanges, all of which returned True.
C12_EchoedRunCompletes ==
    (pc = "done" /\ Len(ram_image_bytes) > 0) =>
        /\ status = "Complete"
        /\ Len(rets) = 2 + ((Len(ram_image_bytes) + 7) \div 8)
        /\ AllOk

\* exchanges begun so far: calls of send_recv_frame
Exchanges == opens + (IF xstat = "open_error" THEN 1 ELSE 0)

\* C13: whatever the bus does, the run ends Complete or Failed; at most
\* 2 + ceil(L/8) exchanges are begun, each with at most one send and at
\* most one receive.
C13_Terminates ==
    /\ <>(pc = "done" /\ status \in {"Complete", "Failed"})
    /\ [](/\ Exchanges <= 2 + ((Len(ram_image_bytes) + 7) \div 8)
          /\ Len(sent) <= opens
          /\ recvs <= Len(sent))

C13_Witness ==
    /\ pc = "done"
    /\ status = "Complete"
    /\ Len(ram_image_bytes) = 17
    /\ Exchanges = 5
    /\ recvs = 5

\* C14: an exchange whose send failed has returned False without a
\* receive (every receive so far belongs to a frame that was sent, and no
\* response is held), and outside the with block its connection is closed.
C14_SendErrorNoReceive ==
    (xstat = "send_error") =>
        /\ ret = FALSE
        /\ resp = NoFrame
        /\ recvs = Len(sent)
        /\ Len(sent) = opens - 1
        /\ \/ pc = "bus_exit"
           \/ /\ bus_open = 0
              /\ Len(rets) = opens
              /\ rets[Len(rets)].ok = FALSE

C14_Witness ==
    /\ xstat = "send_error"
    /\ pc = "ret_chunk"
    /\ bus_open = 0
    /\ opens = 3
    /\ recvs = 2

\* the exchange got no valid echo: a timeout, a receive error, or a frame
\* with another ID or another payload
NoValidEcho ==
    \/ xstat \in {"recv_none", "recv_error"}
    \/ /\ xstat = "recv_frame"
       /\ ~(resp.arbitration_id = response_id /\ resp.data = frame.data)

\* C15: a timeout, a receive error and a frame that does not match all
\* make send_recv_frame return False; the calling method and main act on
\* that value alone, and the run ends with the same AssertionError.
C15_SingleFalseOutcome ==
    /\ []((Returned /\ NoValidEcho) => (ret = FALSE))
    /\ []((pc = "done" /\ NoValidEcho) =>
              (status = "Failed" /\ err = "AssertionError"))
    /\ [][(pc \in {"ret_password", "ret_address"} /\ ~ret) =>
             /\ pc' = "done"
             /\ status' = "Failed"
             /\ err' = "AssertionError"
             /\ msgs' = Append(msgs, IF pc = "ret_password"
                                     THEN "Failed sending password!"
                                     ELSE "Failed sending loading address!")]_vars
    /\ [][(pc = "ret_chunk" /\ ~ret) =>
             (pc' = "ret_code" /\ code_ret' = FALSE /\ msgs' = msgs)]_vars

C15_Witness ==
    /\ pc = "done"
    /\ xstat = "recv_error"
    /\ err = "AssertionError"
    /\ Len(rets) = 2
    /\ rets[2].ok = FALSE

\* C16: every exchange calls bus.recv at most once, and returns after
\* that call whatever frame it got; a first frame that is not the echo
\* makes it return False.
C16_OneReceive ==
    /\ [](/\ recvs <= opens
          /\ (pc # "bus_exit") => (recvs = Len(sent) - (IF pc = "bus_recv" THEN 1 ELSE 0))
          /\ (Returned /\ xstat = "recv_frame"
                 /\ ~(resp.arbitration_id = response_id /\ resp.data = frame.data))
                => (ret = FALSE))
    /\ [][(recvs' # recvs) =>
             (recvs' = recvs + 1 /\ pc = "bus_recv" /\ pc' = "bus_exit")]_vars

C16_Witness ==
    /\ pc = "bus_exit"
    /\ xstat = "recv_frame"
    /\ resp.arbitration_id = frame.arbitration_id
    /\ response_id = 3
    /\ ret = FALSE
    /\ recvs = 3
    /\ opens = 3

\* C17: whatever code_length and code_bytes send_code is called with,
\* every frame it puts on the bus carries 1 to 8 bytes.
C17_ChunkSizes ==
    \A k \in 1..Len(sent) :
        /\ Len(sent[k].data) >= 1
        /\ Len(sent[k].data) <= 8

\* the phase of the method that ran the exchange
PhaseOf(c) ==
    CASE c = "send_password" -> "password"
      [] c = "send_loading_address" -> "loading address"
      [] c = "send_code" -> "image"
      [] OTHER -> ""

\* the phase a message names, "" if it names none
PhaseNamed(m) ==
    CASE m = "Failed to send password!" -> "password"
      [] m = "Failed sending password!" -> "password"
      [] m = "Failed sending loading address!" -> "loading address"
      [] m = "Failed sending image!" -> "image"
      [] OTHER -> ""

\* C18: a run that ended after an exchange returned False is Failed, its
\* last message names the phase of that exchange, and none of its
\* messages names another phase.
C18_MessagesNamePhase ==
    (pc = "done" /\ \E k \in 1..Len(rets) : ~rets[k].ok) =>
        /\ status = "Failed"
        /\ msgs # <<>>
        /\ PhaseNamed(msgs[Len(msgs)]) = PhaseOf(caller)
        /\ \A k \in 1..Len(msgs) : PhaseNamed(msgs[k]) \in {"", PhaseOf(caller)}

DataOk == [id |-> ID_SEND_DATA, ok |-> TRUE]

\* C19: an exchange returns True only on a received frame carrying the
\* payload of the frame just sent; send_code returns True only after
\* ceil(L/8) data exchanges that all returned True; and a Complete run has
\* sent and had echoed the password frame, the address frame and
\* ceil(L/8) data frames whose payloads concatenated are the image.
C19_CompleteMeansEchoed ==
    LET n == (Len(ram_image_bytes) + 7) \div 8
    IN  /\ (Returned /\ ret) =>
             /\ xstat = "recv_frame"
             /\ sent # <<>>
             /\ sent[Len(sent)] = frame
             /\ resp.data = sent[Len(sent)].data
        /\ (pc \in {"ret_code", "done"} /\ code_ret = TRUE) =>
             /\ Len(rets) = 2 + n
             /\ \A k \in 3..Len(rets) : rets[k] = DataOk
             /\ Len(DataFrames) = n
        /\ (status = "Complete") =>
             /\ code_ret = TRUE
             /\ Len(sent) = 2 + n
             /\ Len(rets) = 2 + n
             /\ rets[1] = PasswordOk
             /\ rets[2] = AddressOk
             /\ \A k \in 3..(2 + n) : rets[k] = DataOk
             /\ sent[1].arbitration_id = ID_SEND_PASSWORD
             /\ sent[2].arbitration_id = ID_SEND_ADDRESS
             /\ ConcatPayloads(SubSeq(sent, 3, 2 + n)) = ram_image_bytes

C19_Witness ==
    /\ status = "Complete"
    /\ Len(ram_image_bytes) = 16
    /\ Len(rets) = 4
    /\ resp = Message(ID_SEND_DATA_ECHO, SubSeq(ram_image_bytes, 9, 16))

====
